---- MODULE Spec2Model ----
(***************************************************************************)
(* InfoCuy backend: the HTTP handlers of src/main.go (and the serverless   *)
(* variant src/api/api.go) over the two MongoDB collections "user" and     *)
(* "geo_data".  A collection is a set of documents with unique _id; a      *)
(* FindOne without sort returns any matching document.  Store operations   *)
(* are assumed to succeed (no 500 branch is taken).  Each handler is an    *)
(* operator giving the possible results (response and stores afterwards)   *)
(* of one request in the current state; its action applies one of them.    *)
(* SpecRegister and SpecLocation split the register, update and delete     *)
(* handlers into their store steps, so that the steps of concurrent         *)
(* requests interleave; inflight holds the locals of a request between two  *)
(* of its store steps.  SpecOnce is the sync.Once guarded initialization of *)
(* src/api/api.go, one step per statement of each concurrent caller.        *)
(***************************************************************************)
EXTENDS Integers, FiniteSets, Sequences, TLC

VARIABLES userCollection, geoCollection, nextId, resp, inflight,
          onceDone, onceM, app, db, exited, pc, router, bodyRuns

\* the package state of src/api/api.go and the callers of Handler
boot == <<onceDone, onceM, app, db, exited, pc, router, bodyRuns>>

vars == <<userCollection, geoCollection, nextId, resp, inflight, boot>>

(* ---------------- bounds and input domains ---------------- *)

\* number of ObjectIDs the generator hands out in one behaviour
MaxId == 3

NilObjectID == 0

\* the slots of the requests served step by step
Procs == {1, 2}

\* number of concurrent first calls of Handler
MaxCallers == 3

Callers == 1..MaxCallers

\* id path parameters; an invalid hex string decodes to NilObjectID
IdParams == 0..MaxId

\* X-User-Email header: <<>> is an absent header, <<v>> a header of value v
Headers == {<<>>, <<"">>, <<"a">>, <<"root">>}

\* JSON bodies: ok = FALSE is a body that fails to bind
AuthInput == {[ok |-> FALSE],
    [ok |-> TRUE, email |-> "", password |-> "p"],
    [ok |-> TRUE, email |-> "a", password |-> "p"],
    [ok |-> TRUE, email |-> "a", password |-> "q"]}

\* the bodies registered in a behaviour: stored Accounts all have password "p",
\* so that ("a", "q") is a login with a wrong password
RegisterInput == {input \in AuthInput : ~input.ok \/ input.password = "p"}

\* role bodies that bind (a body that does not bind leaves RoleInput.Role empty)
RoleInput == {[ok |-> TRUE, role |-> "user"], [ok |-> TRUE, role |-> "admin"]}

LocationInput == {[ok |-> FALSE],
    [ok |-> TRUE, id |-> NilObjectID, name |-> "n1", category |-> "c1",
     coordinates |-> <<1, 1>>, address |-> "d1", created_by |-> ""],
    [ok |-> TRUE, id |-> 1, name |-> "n2", category |-> "c2",
     coordinates |-> <<2, 3>>, address |-> "d2", created_by |-> "root"]}

\* zero values of the Go structs
ZeroUser == [id |-> NilObjectID, email |-> "", password |-> "", role |-> ""]

ZeroLocation == [id |-> NilObjectID, name |-> "", category |-> "",
                 coordinates |-> <<0, 0>>, address |-> "", created_by |-> ""]

\* an administrator inserted into the database out of band
SeedAdmin == [id |-> 1, email |-> "root", password |-> "p", role |-> "admin"]

(* ---------------- store and framework primitives ---------------- *)

\* c.GetHeader: "" when the header is absent
GetHeader(h) == IF h = <<>> THEN "" ELSE h[1]

\* FindOne(bson.M{"email": email}): the possible results
FindOneByEmail(coll, email) ==
    LET matches == {d \in coll : d.email = email} IN
    IF matches = {} THEN {[err |-> TRUE]}
    ELSE {[err |-> FALSE, doc |-> d] : d \in matches}

\* variant of the login lookup that filters on the email alone
FindOneByEmailPassword_EmailOnly(coll, email, password) ==
    LET matches == {d \in coll : d.email = email} IN
    IF matches = {} THEN {[err |-> TRUE]}
    ELSE {[err |-> FALSE, doc |-> d] : d \in matches}

\* FindOne(bson.M{"email": email, "password": password})
FindOneByEmailPassword(coll, email, password) ==
    LET matches == {d \in coll : d.email = email /\ d.password = password} IN
    IF matches = {} THEN {[err |-> TRUE]}
    ELSE {[err |-> FALSE, doc |-> d] : d \in matches}

\* variant of the id lookup that reports no error and yields an empty document
FindOneById_NoErr(coll, objID) ==
    LET matches == {d \in coll : d.id = objID} IN
    IF matches = {}
    THEN {[err |-> FALSE, doc |-> [id |-> 0, name |-> "", category |-> "",
                                   coordinates |-> <<0, 0>>, address |-> "",
                                   created_by |-> ""]]}
    ELSE {[err |-> FALSE, doc |-> d] : d \in matches}

\* FindOne(bson.M{"_id": objID})
FindOneById(coll, objID) ==
    LET matches == {d \in coll : d.id = objID} IN
    IF matches = {} THEN {[err |-> TRUE]}
    ELSE {[err |-> FALSE, doc |-> d] : d \in matches}

\* SingleResult.Decode(&v): v keeps its zero value when the lookup failed
Decode(res, zero) == IF res.err THEN zero ELSE res.doc

\* DeleteOne(bson.M{"_id": objID})
DeleteOne(coll, objID) == {d \in coll : d.id # objID}

\* c.JSON(status, ...) of handler op: data is the set of documents in the body
Respond(op, status, data) == [op |-> op, status |-> status, data |-> data]

\* the result of a handler: its response and the stores it leaves
Result(r, users, locations, n) ==
    [resp |-> r, userCollection |-> users, geoCollection |-> locations, nextId |-> n]

\* a handler that answers without writing
Answer(r) == Result(r, userCollection, geoCollection, nextId)

\* the program takes a result; the ObjectID generator is capped at MaxId
Apply(o) ==
    /\ o.nextId <= MaxId + 1
    /\ resp' = o.resp
    /\ userCollection' = o.userCollection
    /\ geoCollection' = o.geoCollection
    /\ nextId' = o.nextId
    /\ UNCHANGED <<inflight, boot>>

(* ---------------- src/main.go ---------------- *)

\* a slot that holds no request
Idle == [pc |-> "idle"]

Init ==
    /\ userCollection = {SeedAdmin}
    /\ geoCollection = {}
    /\ nextId = 2
    /\ resp = Respond("none", 0, {})
    /\ inflight = [p \in Procs |-> Idle]
    /\ onceDone = FALSE
    /\ onceM = 0
    /\ app = "nil"
    /\ db = "nil"
    /\ exited = FALSE
    /\ pc = [c \in Callers |-> "Handler"]
    /\ router = [c \in Callers |-> "none"]
    /\ bodyRuns = 0

\* the User built by the register handler
NewUser(id, input) ==
    [id |-> id, email |-> input.email, password |-> input.password, role |-> "user"]

\* POST /register
RegisterHandler(input) ==
    IF ~input.ok
    THEN {Answer(Respond("register", 400, {}))}
    ELSE {IF ~found.err
          THEN Answer(Respond("register", 400, {}))
          ELSE Result(Respond("register", 201, {NewUser(nextId, input)}),
                      userCollection \cup {NewUser(nextId, input)},
                      geoCollection, nextId + 1)
          : found \in FindOneByEmail(userCollection, input.email)}

\* POST /login
LoginHandler(input) ==
    IF ~input.ok
    THEN {Answer(Respond("login", 400, {}))}
    ELSE {IF found.err
          THEN Answer(Respond("login", 401, {}))
          ELSE Answer(Respond("login", 200, {found.doc}))
          : found \in FindOneByEmailPassword(userCollection, input.email, input.password)}

\* GET /locations
GetLocationsHandler == {Answer(Respond("getLocations", 200, geoCollection))}

\* variant of the stored Location that keeps the body's created_by
NewLocation_BodyOwner(id, userEmail, body) ==
    [id |-> id, name |-> body.name, category |-> body.category,
     coordinates |-> body.coordinates, address |-> body.address,
     created_by |-> body.created_by]

\* the Location stored by the create handler: body fields, fresh ID, header as CreatedBy
NewLocation(id, userEmail, body) ==
    [id |-> id, name |-> body.name, category |-> body.category,
     coordinates |-> body.coordinates, address |-> body.address,
     created_by |-> userEmail]

\* POST /locations
AddLocationHandler(h, body) ==
    LET userEmail == GetHeader(h) IN
    IF userEmail = ""
    THEN {Answer(Respond("addLocation", 401, {}))}
    ELSE IF ~body.ok
    THEN {Answer(Respond("addLocation", 400, {}))}
    ELSE {Result(Respond("addLocation", 201, {NewLocation(nextId, userEmail, body)}),
                 userCollection,
                 geoCollection \cup {NewLocation(nextId, userEmail, body)},
                 nextId + 1)}

\* variant of the access check that forgets the admin exemption
AccessDenied_OwnerOnly(requestor, existingLoc) ==
    existingLoc.created_by # requestor.email

\* the access check of the update and delete handlers: TRUE when the request is refused
AccessDenied(requestor, existingLoc) ==
    requestor.role # "admin" /\ existingLoc.created_by # requestor.email

\* variant of the $set document that also writes created_by
SetFields_WithOwner(d, updateData) ==
    [d EXCEPT !.name = updateData.name, !.category = updateData.category,
              !.coordinates = updateData.coordinates, !.address = updateData.address,
              !.created_by = updateData.created_by]

\* the $set document of the update handler applied to one record
SetFields(d, updateData) ==
    [d EXCEPT !.name = updateData.name, !.category = updateData.category,
              !.coordinates = updateData.coordinates, !.address = updateData.address]

\* geoCollection.UpdateOne(bson.M{"_id": objID}, update)
UpdateOneLocation(coll, objID, updateData) ==
    {IF d.id = objID THEN SetFields(d, updateData) ELSE d : d \in coll}

\* variant of the update handler that parses the body before the other checks
EditLocationHandler_BindFirst(h, objID, body) ==
    IF ~body.ok
    THEN {Answer(Respond("editLocation", 400, {}))}
    ELSE UNION {IF fu.err
                THEN {Answer(Respond("editLocation", 401, {}))}
                ELSE {IF fl.err
                      THEN Answer(Respond("editLocation", 404, {}))
                      ELSE IF AccessDenied(fu.doc, fl.doc)
                      THEN Answer(Respond("editLocation", 403, {}))
                      ELSE Result(Respond("editLocation", 200, {}), userCollection,
                                  UpdateOneLocation(geoCollection, objID, body), nextId)
                      : fl \in FindOneById(geoCollection, objID)}
                : fu \in FindOneByEmail(userCollection, GetHeader(h))}

\* PUT /locations/:id
EditLocationHandler(h, objID, body) ==
    UNION {IF fu.err
           THEN {Answer(Respond("editLocation", 401, {}))}
           ELSE {IF fl.err
                 THEN Answer(Respond("editLocation", 404, {}))
                 ELSE IF AccessDenied(fu.doc, fl.doc)
                 THEN Answer(Respond("editLocation", 403, {}))
                 ELSE IF ~body.ok
                 THEN Answer(Respond("editLocation", 400, {}))
                 ELSE Result(Respond("editLocation", 200, {}), userCollection,
                             UpdateOneLocation(geoCollection, objID, body), nextId)
                 : fl \in FindOneById(geoCollection, objID)}
           : fu \in FindOneByEmail(userCollection, GetHeader(h))}

\* DELETE /locations/:id
DeleteLocationHandler(h, objID) ==
    UNION {IF fu.err
           THEN {Answer(Respond("deleteLocation", 401, {}))}
           ELSE {IF fl.err
                 THEN Answer(Respond("deleteLocation", 404, {}))
                 ELSE IF AccessDenied(fu.doc, fl.doc)
                 THEN Answer(Respond("deleteLocation", 403, {}))
                 ELSE Result(Respond("deleteLocation", 200, {}), userCollection,
                             DeleteOne(geoCollection, objID), nextId)
                 : fl \in FindOneById(geoCollection, objID)}
           : fu \in FindOneByEmail(userCollection, GetHeader(h))}

\* variant of funcIsAdmin that accepts every registered requestor
funcIsAdmin_AnyAccount(coll, email) ==
    {~fu.err : fu \in FindOneByEmail(coll, email)}

\* funcIsAdmin: the possible answers (the lookup error is ignored)
funcIsAdmin(coll, email) ==
    {Decode(fu, ZeroUser).role = "admin" : fu \in FindOneByEmail(coll, email)}

\* GET /users
GetUsersHandler(h) ==
    {IF ~isAdmin
     THEN Answer(Respond("getUsers", 403, {}))
     ELSE Answer(Respond("getUsers", 200, userCollection))
     : isAdmin \in funcIsAdmin(userCollection, GetHeader(h))}

\* RoleInput after c.ShouldBindJSON, whose error is ignored
BoundRole(body) == IF body.ok THEN body.role ELSE ""

\* userCollection.UpdateOne(bson.M{"_id": objID}, $set role)
UpdateOneRole(coll, objID, role) ==
    {IF d.id = objID THEN [d EXCEPT !.role = role] ELSE d : d \in coll}

\* PUT /users/:id/role
UpdateUserRoleHandler(h, objID, body) ==
    {IF ~isAdmin
     THEN Answer(Respond("updateUserRole", 403, {}))
     ELSE Result(Respond("updateUserRole", 200, {}),
                 UpdateOneRole(userCollection, objID, BoundRole(body)),
                 geoCollection, nextId)
     : isAdmin \in funcIsAdmin(userCollection, GetHeader(h))}

\* variant of the delete user handler that also removes the Account's records
DeleteUserHandler_Cascade(h, objID) ==
    {IF ~isAdmin
     THEN Answer(Respond("deleteUser", 403, {}))
     ELSE Result(Respond("deleteUser", 200, {}),
                 DeleteOne(userCollection, objID),
                 {l \in geoCollection :
                     \A u \in userCollection : u.id = objID => l.created_by # u.email},
                 nextId)
     : isAdmin \in funcIsAdmin(userCollection, GetHeader(h))}

\* DELETE /users/:id
DeleteUserHandler(h, objID) ==
    {IF ~isAdmin
     THEN Answer(Respond("deleteUser", 403, {}))
     ELSE Result(Respond("deleteUser", 200, {}),
                 DeleteOne(userCollection, objID), geoCollection, nextId)
     : isAdmin \in funcIsAdmin(userCollection, GetHeader(h))}

\* one request served from start to end
Register == \E input \in RegisterInput : \E o \in RegisterHandler(input) : Apply(o)

Login == \E input \in AuthInput : \E o \in LoginHandler(input) : Apply(o)

GetLocations == \E o \in GetLocationsHandler : Apply(o)

AddLocation ==
    \E h \in Headers, body \in LocationInput : \E o \in AddLocationHandler(h, body) : Apply(o)

EditLocation ==
    \E h \in Headers, objID \in IdParams, body \in LocationInput :
        \E o \in EditLocationHandler(h, objID, body) : Apply(o)

DeleteLocation ==
    \E h \in Headers, objID \in IdParams : \E o \in DeleteLocationHandler(h, objID) : Apply(o)

GetUsers == \E h \in Headers : \E o \in GetUsersHandler(h) : Apply(o)

UpdateUserRole ==
    \E h \in Headers, objID \in IdParams, body \in RoleInput :
        \E o \in UpdateUserRoleHandler(h, objID, body) : Apply(o)

DeleteUser ==
    \E h \in Headers, objID \in IdParams : \E o \in DeleteUserHandler(h, objID) : Apply(o)

Next ==
    \/ Register
    \/ Login
    \/ GetLocations
    \/ AddLocation
    \/ EditLocation
    \/ DeleteLocation
    \/ GetUsers
    \/ UpdateUserRole
    \/ DeleteUser

Spec == Init /\ [][Next]_vars

(* ---------------- src/api/api.go ---------------- *)

\* POST /register: the lookup error is ignored, the decoded Email decides
ApiRegisterHandler(input) ==
    IF ~input.ok
    THEN {Answer(Respond("register", 400, {}))}
    ELSE {IF Decode(found, ZeroUser).email # ""
          THEN Answer(Respond("register", 400, {}))
          ELSE Result(Respond("register", 201, {NewUser(nextId, input)}),
                      userCollection \cup {NewUser(nextId, input)},
                      geoCollection, nextId + 1)
          : found \in FindOneByEmail(userCollection, input.email)}

\* POST /login
ApiLoginHandler(input) == LoginHandler(input)

\* GET /locations
ApiGetLocationsHandler == GetLocationsHandler

\* POST /locations
ApiAddLocationHandler(h, body) == AddLocationHandler(h, body)

\* Location after c.ShouldBindJSON, whose error is ignored
BoundLocation(body) == IF body.ok THEN body ELSE ZeroLocation

\* PUT /locations/:id: no 401, 404 or 400 branch
ApiEditLocationHandler(h, objID, body) ==
    {IF AccessDenied(Decode(f[1], ZeroUser), Decode(f[2], ZeroLocation))
     THEN Answer(Respond("editLocation", 403, {}))
     ELSE Result(Respond("editLocation", 200, {}), userCollection,
                 UpdateOneLocation(geoCollection, objID, BoundLocation(body)), nextId)
     : f \in FindOneByEmail(userCollection, GetHeader(h)) \X FindOneById(geoCollection, objID)}

\* DELETE /locations/:id: no 401 or 404 branch
ApiDeleteLocationHandler(h, objID) ==
    {IF AccessDenied(Decode(f[1], ZeroUser), Decode(f[2], ZeroLocation))
     THEN Answer(Respond("deleteLocation", 403, {}))
     ELSE Result(Respond("deleteLocation", 200, {}), userCollection,
                 DeleteOne(geoCollection, objID), nextId)
     : f \in FindOneByEmail(userCollection, GetHeader(h)) \X FindOneById(geoCollection, objID)}

\* GET /users
ApiGetUsersHandler(h) == GetUsersHandler(h)

\* PUT /users/:id/role
ApiUpdateUserRoleHandler(h, objID, body) == UpdateUserRoleHandler(h, objID, body)

\* DELETE /users/:id
ApiDeleteUserHandler(h, objID) == DeleteUserHandler(h, objID)

ApiRegister == \E input \in RegisterInput : \E o \in ApiRegisterHandler(input) : Apply(o)

ApiLogin == \E input \in AuthInput : \E o \in ApiLoginHandler(input) : Apply(o)

ApiGetLocations == \E o \in ApiGetLocationsHandler : Apply(o)

ApiAddLocation ==
    \E h \in Headers, body \in LocationInput : \E o \in ApiAddLocationHandler(h, body) : Apply(o)

ApiEditLocation ==
    \E h \in Headers, objID \in IdParams, body \in LocationInput :
        \E o \in ApiEditLocationHandler(h, objID, body) : Apply(o)

ApiDeleteLocation ==
    \E h \in Headers, objID \in IdParams : \E o \in ApiDeleteLocationHandler(h, objID) : Apply(o)

ApiGetUsers == \E h \in Headers : \E o \in ApiGetUsersHandler(h) : Apply(o)

ApiUpdateUserRole ==
    \E h \in Headers, objID \in IdParams, body \in RoleInput :
        \E o \in ApiUpdateUserRoleHandler(h, objID, body) : Apply(o)

ApiDeleteUser ==
    \E h \in Headers, objID \in IdParams : \E o \in ApiDeleteUserHandler(h, objID) : Apply(o)

NextApi ==
    \/ ApiRegister
    \/ ApiLogin
    \/ ApiGetLocations
    \/ ApiAddLocation
    \/ ApiEditLocation
    \/ ApiDeleteLocation
    \/ ApiGetUsers
    \/ ApiUpdateUserRole
    \/ ApiDeleteUser

SpecApi == Init /\ [][NextApi]_vars

(* ---------------- src/main.go, one store step at a time ---------------- *)

\* POST /register up to the existence check: the FindOne and its branch
RegisterCheck(p) ==
    /\ inflight[p] = Idle
    /\ \E input \in RegisterInput :
          IF ~input.ok
          THEN resp' = Respond("register", 400, {}) /\ UNCHANGED inflight
          ELSE \E found \in FindOneByEmail(userCollection, input.email) :
                 IF ~found.err
                 THEN resp' = Respond("register", 400, {}) /\ UNCHANGED inflight
                 ELSE /\ inflight' = [inflight EXCEPT ![p] = [pc |-> "insert", input |-> input]]
                      /\ UNCHANGED resp
    /\ UNCHANGED <<userCollection, geoCollection, nextId, boot>>

\* variant of the insert step that looks the email up again and refuses a duplicate
RegisterInsert_Recheck(p) ==
    /\ inflight[p].pc = "insert"
    /\ nextId <= MaxId
    /\ inflight' = [inflight EXCEPT ![p] = Idle]
    /\ IF \E u \in userCollection : u.email = inflight[p].input.email
       THEN /\ resp' = Respond("register", 400, {})
            /\ UNCHANGED <<userCollection, nextId>>
       ELSE /\ resp' = Respond("register", 201, {NewUser(nextId, inflight[p].input)})
            /\ userCollection' = userCollection \cup {NewUser(nextId, inflight[p].input)}
            /\ nextId' = nextId + 1
    /\ UNCHANGED <<geoCollection, boot>>

\* POST /register after the check passed: the new User and its InsertOne
RegisterInsert(p) ==
    /\ inflight[p].pc = "insert"
    /\ nextId <= MaxId
    /\ inflight' = [inflight EXCEPT ![p] = Idle]
    /\ resp' = Respond("register", 201, {NewUser(nextId, inflight[p].input)})
    /\ userCollection' = userCollection \cup {NewUser(nextId, inflight[p].input)}
    /\ nextId' = nextId + 1
    /\ UNCHANGED <<geoCollection, boot>>

NextRegister ==
    \/ \E p \in Procs : RegisterCheck(p)
    \/ \E p \in Procs : RegisterInsert(p)
    \/ Login

\* register requests whose store steps interleave, next to logins (one store step)
SpecRegister == Init /\ [][NextRegister]_vars

\* PUT /locations/:id up to the identity check: the FindOne on userCollection
EditFindUser(p) ==
    /\ inflight[p] = Idle
    /\ \E h \in Headers : \E fu \in FindOneByEmail(userCollection, GetHeader(h)) :
          IF fu.err
          THEN resp' = Respond("editLocation", 401, {}) /\ UNCHANGED inflight
          ELSE /\ inflight' = [inflight EXCEPT ![p] =
                                  [pc |-> "editFindLoc", requestor |-> fu.doc]]
               /\ UNCHANGED resp
    /\ UNCHANGED <<userCollection, geoCollection, nextId, boot>>

\* variant of the record lookup step that leaves out the access check
EditFindLoc_NoAccessCheck(p) ==
    /\ inflight[p].pc = "editFindLoc"
    /\ \E objID \in IdParams, body \in LocationInput :
        \E fl \in FindOneById(geoCollection, objID) :
          IF fl.err
          THEN /\ resp' = Respond("editLocation", 404, {})
               /\ inflight' = [inflight EXCEPT ![p] = Idle]
          ELSE IF ~body.ok
          THEN /\ resp' = Respond("editLocation", 400, {})
               /\ inflight' = [inflight EXCEPT ![p] = Idle]
          ELSE /\ inflight' = [inflight EXCEPT ![p] =
                                  [pc |-> "editUpdate", requestor |-> inflight[p].requestor,
                                   objID |-> objID, updateData |-> body]]
               /\ UNCHANGED resp
    /\ UNCHANGED <<userCollection, geoCollection, nextId, boot>>

\* PUT /locations/:id from the FindOne on geoCollection to the bound body
EditFindLoc(p) ==
    /\ inflight[p].pc = "editFindLoc"
    /\ \E objID \in IdParams, body \in LocationInput :
        \E fl \in FindOneById(geoCollection, objID) :
          IF fl.err
          THEN /\ resp' = Respond("editLocation", 404, {})
               /\ inflight' = [inflight EXCEPT ![p] = Idle]
          ELSE IF AccessDenied(inflight[p].requestor, fl.doc)
          THEN /\ resp' = Respond("editLocation", 403, {})
               /\ inflight' = [inflight EXCEPT ![p] = Idle]
          ELSE IF ~body.ok
          THEN /\ resp' = Respond("editLocation", 400, {})
               /\ inflight' = [inflight EXCEPT ![p] = Idle]
          ELSE /\ inflight' = [inflight EXCEPT ![p] =
                                  [pc |-> "editUpdate", requestor |-> inflight[p].requestor,
                                   objID |-> objID, updateData |-> body]]
               /\ UNCHANGED resp
    /\ UNCHANGED <<userCollection, geoCollection, nextId, boot>>

\* PUT /locations/:id: the UpdateOne and the 200
EditUpdate(p) ==
    /\ inflight[p].pc = "editUpdate"
    /\ geoCollection' = UpdateOneLocation(geoCollection, inflight[p].objID,
                                          inflight[p].updateData)
    /\ resp' = Respond("editLocation", 200, {})
    /\ inflight' = [inflight EXCEPT ![p] = Idle]
    /\ UNCHANGED <<userCollection, nextId, boot>>

\* DELETE /locations/:id up to the identity check
DeleteFindUser(p) ==
    /\ inflight[p] = Idle
    /\ \E h \in Headers : \E fu \in FindOneByEmail(userCollection, GetHeader(h)) :
          IF fu.err
          THEN resp' = Respond("deleteLocation", 401, {}) /\ UNCHANGED inflight
          ELSE /\ inflight' = [inflight EXCEPT ![p] =
                                  [pc |-> "deleteFindLoc", requestor |-> fu.doc]]
               /\ UNCHANGED resp
    /\ UNCHANGED <<userCollection, geoCollection, nextId, boot>>

\* DELETE /locations/:id from the FindOne on geoCollection to the access check
DeleteFindLoc(p) ==
    /\ inflight[p].pc = "deleteFindLoc"
    /\ \E objID \in IdParams : \E fl \in FindOneById(geoCollection, objID) :
          IF fl.err
          THEN /\ resp' = Respond("deleteLocation", 404, {})
               /\ inflight' = [inflight EXCEPT ![p] = Idle]
          ELSE IF AccessDenied(inflight[p].requestor, fl.doc)
          THEN /\ resp' = Respond("deleteLocation", 403, {})
               /\ inflight' = [inflight EXCEPT ![p] = Idle]
          ELSE /\ inflight' = [inflight EXCEPT ![p] =
                                  [pc |-> "deleteDelete", requestor |-> inflight[p].requestor,
                                   objID |-> objID]]
               /\ UNCHANGED resp
    /\ UNCHANGED <<userCollection, geoCollection, nextId, boot>>

\* DELETE /locations/:id: the DeleteOne and the 200
DeleteDelete(p) ==
    /\ inflight[p].pc = "deleteDelete"
    /\ geoCollection' = DeleteOne(geoCollection, inflight[p].objID)
    /\ resp' = Respond("deleteLocation", 200, {})
    /\ inflight' = [inflight EXCEPT ![p] = Idle]
    /\ UNCHANGED <<userCollection, nextId, boot>>

\* one update or delete is served step by step; the other requests are served
\* whole between two of its store steps
NextLocation ==
    \/ EditFindUser(1)
    \/ EditFindLoc(1)
    \/ EditUpdate(1)
    \/ DeleteFindUser(1)
    \/ DeleteFindLoc(1)
    \/ DeleteDelete(1)
    \/ AddLocation
    \/ EditLocation
    \/ DeleteLocation
    \/ UpdateUserRole
    \/ DeleteUser

\* a location update or delete whose store steps interleave with create,
\* update, delete, role update and delete user requests
SpecLocation == Init /\ [][NextLocation]_vars

(* ---------------- src/api/api.go: Handler and SetupRouter ---------------- *)

\* Handler: the call of SetupRouter, and in it once.Do reading the done flag
OnceDo(c) ==
    /\ ~exited
    /\ pc[c] = "Handler"
    /\ pc' = [pc EXCEPT ![c] = IF onceDone THEN "return" ELSE "lock"]
    /\ UNCHANGED <<onceDone, onceM, app, db, exited, router, bodyRuns>>
    /\ UNCHANGED <<userCollection, geoCollection, nextId, resp, inflight>>

\* variant of the slow path of once.Do that does not read the done flag again
OnceLock_NoRecheck(c) ==
    /\ ~exited
    /\ pc[c] = "lock"
    /\ onceM = 0
    /\ onceM' = c
    /\ pc' = [pc EXCEPT ![c] = "connectDB"]
    /\ UNCHANGED <<onceDone, app, db, exited, router, bodyRuns>>
    /\ UNCHANGED <<userCollection, geoCollection, nextId, resp, inflight>>

\* the slow path of once.Do: take the mutex, read the done flag again
OnceLock(c) ==
    /\ ~exited
    /\ pc[c] = "lock"
    /\ onceM = 0
    /\ onceM' = c
    /\ pc' = [pc EXCEPT ![c] = IF onceDone THEN "unlock" ELSE "connectDB"]
    /\ UNCHANGED <<onceDone, app, db, exited, router, bodyRuns>>
    /\ UNCHANGED <<userCollection, geoCollection, nextId, resp, inflight>>

\* connectDB: no MONGO_URI (the collections stay nil), a connect or ping
\* error (log.Fatal ends the process), or the collections are set
ConnectDB(c) ==
    /\ ~exited
    /\ pc[c] = "connectDB"
    /\ bodyRuns' = bodyRuns + 1
    /\ \E outcome \in {"no uri", "fatal", "connected"} :
          /\ db' = IF outcome = "connected" THEN "geo_db" ELSE db
          /\ exited' = (outcome = "fatal")
    /\ pc' = [pc EXCEPT ![c] = "routes"]
    /\ UNCHANGED <<onceDone, onceM, app, router>>
    /\ UNCHANGED <<userCollection, geoCollection, nextId, resp, inflight>>

\* r := gin.New() and the registration of the middleware and routes on r
RegisterRoutes(c) ==
    /\ ~exited
    /\ pc[c] = "routes"
    /\ pc' = [pc EXCEPT ![c] = "assign"]
    /\ UNCHANGED <<onceDone, onceM, app, db, exited, router, bodyRuns>>
    /\ UNCHANGED <<userCollection, geoCollection, nextId, resp, inflight>>

\* app = r, the last statement of the initialization body
AssignApp(c) ==
    /\ ~exited
    /\ pc[c] = "assign"
    /\ app' = "r"
    /\ pc' = [pc EXCEPT ![c] = "store"]
    /\ UNCHANGED <<onceDone, onceM, db, exited, router, bodyRuns>>
    /\ UNCHANGED <<userCollection, geoCollection, nextId, resp, inflight>>

\* once.Do after the body returned: the done flag is set
OnceStore(c) ==
    /\ ~exited
    /\ pc[c] = "store"
    /\ onceDone' = TRUE
    /\ pc' = [pc EXCEPT ![c] = "unlock"]
    /\ UNCHANGED <<onceM, app, db, exited, router, bodyRuns>>
    /\ UNCHANGED <<userCollection, geoCollection, nextId, resp, inflight>>

\* once.Do releases its mutex and returns
OnceUnlock(c) ==
    /\ ~exited
    /\ pc[c] = "unlock"
    /\ onceM' = 0
    /\ pc' = [pc EXCEPT ![c] = "return"]
    /\ UNCHANGED <<onceDone, app, db, exited, router, bodyRuns>>
    /\ UNCHANGED <<userCollection, geoCollection, nextId, resp, inflight>>

\* return app, received by Handler as router
ReturnApp(c) ==
    /\ ~exited
    /\ pc[c] = "return"
    /\ router' = [router EXCEPT ![c] = app]
    /\ pc' = [pc EXCEPT ![c] = "ServeHTTP"]
    /\ UNCHANGED <<onceDone, onceM, app, db, exited, bodyRuns>>
    /\ UNCHANGED <<userCollection, geoCollection, nextId, resp, inflight>>

\* router.ServeHTTP(w, r): a nil router panics
ServeHTTP(c) ==
    /\ ~exited
    /\ pc[c] = "ServeHTTP"
    /\ pc' = [pc EXCEPT ![c] = IF router[c] = "nil" THEN "panic" ELSE "served"]
    /\ UNCHANGED <<onceDone, onceM, app, db, exited, router, bodyRuns>>
    /\ UNCHANGED <<userCollection, geoCollection, nextId, resp, inflight>>

NextOnce ==
    \/ \E c \in Callers : OnceDo(c)
    \/ \E c \in Callers : OnceLock(c)
    \/ \E c \in Callers : ConnectDB(c)
    \/ \E c \in Callers : RegisterRoutes(c)
    \/ \E c \in Callers : AssignApp(c)
    \/ \E c \in Callers : OnceStore(c)
    \/ \E c \in Callers : OnceUnlock(c)
    \/ \E c \in Callers : ReturnApp(c)
    \/ \E c \in Callers : ServeHTTP(c)

\* concurrent first calls of Handler, one statement at a time
SpecOnce == Init /\ [][NextOnce]_vars

(* ---------------- properties ---------------- *)

\* P holds of every result some request to src/main.go can have in the current state
EveryResult(P(_)) ==
    /\ \A input \in AuthInput : \A o \in RegisterHandler(input) : P(o)
    /\ \A input \in AuthInput : \A o \in LoginHandler(input) : P(o)
    /\ \A o \in GetLocationsHandler : P(o)
    /\ \A h \in Headers, body \in LocationInput : \A o \in AddLocationHandler(h, body) : P(o)
    /\ \A h \in Headers, objID \in IdParams, body \in LocationInput :
          \A o \in EditLocationHandler(h, objID, body) : P(o)
    /\ \A h \in Headers, objID \in IdParams : \A o \in DeleteLocationHandler(h, objID) : P(o)
    /\ \A h \in Headers : \A o \in GetUsersHandler(h) : P(o)
    /\ \A h \in Headers, objID \in IdParams, body \in RoleInput :
          \A o \in UpdateUserRoleHandler(h, objID, body) : P(o)
    /\ \A h \in Headers, objID \in IdParams : \A o \in DeleteUserHandler(h, objID) : P(o)

\* C1: an update or delete of an existing record by a requestor that resolves
\* to an Account which is neither the record's owner nor an admin is answered
\* 403 and leaves the record as it was; from the owner's Account or an admin's
\* it is not refused: a delete removes the record and an update whose body
\* binds writes the body's name, category, coordinates and address into it.
C1_OwnerOrAdminOnly ==
    \A h \in Headers, objID \in IdParams :
      \A u \in userCollection, l \in geoCollection :
        (u.email = GetHeader(h) /\ l.id = objID) =>
          /\ \A body \in LocationInput : \A o \in EditLocationHandler(h, objID, body) :
               IF u.role # "admin" /\ u.email # l.created_by
               THEN o.resp.status = 403 /\ o.geoCollection = geoCollection
               ELSE IF body.ok
               THEN /\ o.resp.status = 200
                    /\ o.geoCollection = (geoCollection \ {l}) \cup
                         {[id |-> l.id, name |-> body.name, category |-> body.category,
                           coordinates |-> body.coordinates, address |-> body.address,
                           created_by |-> l.created_by]}
               ELSE o.resp.status = 400 /\ o.geoCollection = geoCollection
          /\ \A o \in DeleteLocationHandler(h, objID) :
               IF u.role # "admin" /\ u.email # l.created_by
               THEN o.resp.status = 403 /\ o.geoCollection = geoCollection
               ELSE o.resp.status = 200 /\ o.geoCollection = geoCollection \ {l}

\* a refused update or delete: the record is still there, next to a non-admin
\* Account that does not own it and an admin Account
C1_Witness ==
    /\ resp.op \in {"editLocation", "deleteLocation"}
    /\ resp.status = 403
    /\ \E l \in geoCollection, u \in userCollection, a \in userCollection :
          u.role # "admin" /\ u.email # l.created_by /\ a.role = "admin"

\* C2: registering an email that already belongs to an Account is answered 400,
\* inserts no Account and leaves the existing Accounts as they were, in the
\* register handler of src/main.go and in that of src/api/api.go.
C2_DuplicateRejected ==
    \A input \in AuthInput :
      (input.ok /\ \E u \in userCollection : u.email = input.email) =>
         \A o \in RegisterHandler(input) \cup ApiRegisterHandler(input) :
            o.resp.status = 400 /\ o.resp.data = {} /\ o.userCollection = userCollection

\* C3: an Account enters the store only through register and with role "user";
\* the role of a stored Account changes only in a role update whose requestor
\* resolves to an admin Account; a store without an admin never gets one.
C3_RolesKept(o) ==
    \/ o.userCollection = userCollection
    \/ /\ \A v \in o.userCollection :
            (\A u \in userCollection : u.id # v.id) =>
               v.role = "user" /\ o.resp.op = "register" /\ o.resp.status = 201
       /\ (\E u \in userCollection, v \in o.userCollection : u.id = v.id /\ u.role # v.role)
             => o.resp.op = "updateUserRole"
       /\ (\A u \in userCollection : u.role # "admin") =>
             (\A v \in o.userCollection : v.role # "admin")

C3_RoleOnlyByAdmin ==
    /\ EveryResult(C3_RolesKept)
    /\ \A h \in Headers, objID \in IdParams, body \in RoleInput :
         \A o \in UpdateUserRoleHandler(h, objID, body) :
            (\E u \in userCollection, v \in o.userCollection : u.id = v.id /\ u.role # v.role)
               => \E a \in userCollection : a.email = GetHeader(h) /\ a.role = "admin"

\* a role update was refused in a store that holds Accounts but no admin
C3_Witness ==
    /\ resp.op = "updateUserRole"
    /\ resp.status = 403
    /\ userCollection # {}
    /\ \A u \in userCollection : u.role # "admin"

\* C4: list users, update role and delete user answer 403 without account data
\* and leave every Account unchanged when the X-User-Email header is missing,
\* matches no Account, or matches an Account whose role is not "admin".
C4_AdminOnly ==
    \A h \in Headers :
      (\/ h = <<>>
       \/ \A u \in userCollection : u.email # GetHeader(h)
       \/ \E u \in userCollection : u.email = GetHeader(h) /\ u.role # "admin") =>
         \A o \in GetUsersHandler(h)
                  \cup UNION {DeleteUserHandler(h, objID) : objID \in IdParams}
                  \cup UNION {UpdateUserRoleHandler(h, objID, body) :
                                 objID \in IdParams, body \in RoleInput} :
            o.resp.status = 403 /\ o.resp.data = {} /\ o.userCollection = userCollection

\* C5: a login whose body binds answers 200 exactly when a stored Account has
\* that email and that password, and then returns one such Account; otherwise
\* it answers 401 without account data; the stores are unchanged either way.
C5_LoginExactMatch ==
    \A input \in AuthInput :
      input.ok =>
        \A o \in LoginHandler(input) :
           /\ o.userCollection = userCollection /\ o.geoCollection = geoCollection
           /\ IF \E u \in userCollection :
                    u.email = input.email /\ u.password = input.password
              THEN /\ o.resp.status = 200
                   /\ \E u \in userCollection :
                        /\ o.resp.data = {u}
                        /\ u.email = input.email /\ u.password = input.password
              ELSE o.resp.status = 401 /\ o.resp.data = {}

\* a login was refused although both emails of the login bodies are registered:
\* the refused login is the one with the right email and the wrong password
C5_Witness ==
    /\ resp.op = "login"
    /\ resp.status = 401
    /\ \E u \in userCollection : u.email = "a" /\ u.password = "p"
    /\ \E u \in userCollection : u.email = "" /\ u.password = "p"

\* C6: an update or delete that names an id with no record, sent by a requestor
\* that resolves to an Account (admin or not), is answered 404 and changes
\* neither store.
C6_NotFound ==
    \A h \in Headers, objID \in IdParams :
      (/\ \E u \in userCollection : u.email = GetHeader(h)
       /\ \A l \in geoCollection : l.id # objID) =>
         \A o \in DeleteLocationHandler(h, objID)
                  \cup UNION {EditLocationHandler(h, objID, body) : body \in LocationInput} :
            /\ o.resp.status = 404
            /\ o.userCollection = userCollection /\ o.geoCollection = geoCollection

\* a 404 answer in a store that holds an admin and a non-admin Account
C6_Witness ==
    /\ resp.op \in {"editLocation", "deleteLocation"}
    /\ resp.status = 404
    /\ \E u \in userCollection, a \in userCollection :
          u.role = "user" /\ a.role = "admin"

\* C7: on the location update and delete paths a request without an
\* X-User-Email value, or with a value that is the email of no Account, is
\* answered 401 and no location is changed or removed.
C7_UnknownIs401 ==
    \A h \in Headers, objID \in IdParams :
      (\/ h = <<>>
       \/ \A u \in userCollection : u.email # GetHeader(h)) =>
         \A o \in DeleteLocationHandler(h, objID)
                  \cup UNION {EditLocationHandler(h, objID, body) : body \in LocationInput} :
            o.resp.status = 401 /\ o.geoCollection = geoCollection

\* C8: create answers 401 and inserts nothing when the header is absent or
\* empty; with a non-empty header H and a body that binds it inserts exactly one
\* record, with an id no stored record has and created_by = H whatever _id and
\* created_by the body carries, and leaves the stored records as they were.
C8_CreateOwnerFromHeader ==
    \A h \in Headers, body \in LocationInput :
      \A o \in AddLocationHandler(h, body) :
         /\ o.userCollection = userCollection
         /\ (h = <<>> \/ h = <<"">>) =>
               o.resp.status = 401 /\ o.geoCollection = geoCollection
         /\ (h # <<>> /\ h # <<"">> /\ body.ok) =>
               /\ o.resp.status = 201
               /\ geoCollection \subseteq o.geoCollection
               /\ \E n \in o.geoCollection :
                    /\ o.geoCollection \ geoCollection = {n}
                    /\ \A l \in geoCollection : l.id # n.id
                    /\ n.created_by = h[1]
                    /\ n.name = body.name /\ n.category = body.category
                    /\ n.coordinates = body.coordinates /\ n.address = body.address

\* a record was created from a body that names another owner and another id,
\* under a header that is the email of no Account
C8_Witness ==
    /\ resp.op = "addLocation"
    /\ resp.status = 201
    /\ \E n \in resp.data :
          /\ n \in geoCollection
          /\ n.name = "n2" /\ n.created_by = "a" /\ n.id # 1
          /\ \A u \in userCollection : u.email # "a"
    /\ Cardinality(geoCollection) = 2

\* C9: the id and created_by of a stored record never change: no request
\* changes the created_by stored under an id, and an update leaves every
\* Account and every other record unchanged, keeps the ids of the store, and
\* changes at most name, category, coordinates and address of the record with
\* the addressed id.
C9_OwnerKept(o) ==
    \/ o.geoCollection = geoCollection
    \/ \A l \in geoCollection, m \in o.geoCollection :
          l.id = m.id => l.created_by = m.created_by

C9_OwnerAndIdImmutable ==
    /\ EveryResult(C9_OwnerKept)
    /\ \A h \in Headers, objID \in IdParams, body \in LocationInput :
         \A o \in EditLocationHandler(h, objID, body) :
            /\ o.userCollection = userCollection
            /\ \/ o.geoCollection = geoCollection
               \/ \E l \in geoCollection, m \in o.geoCollection :
                     /\ l.id = objID /\ m.id = objID
                     /\ o.geoCollection = (geoCollection \ {l}) \cup {m}

\* an admin or owner update took place on one of two stored records: the
\* record carries the second body's fields but not its created_by
C9_Witness ==
    /\ resp.op = "editLocation"
    /\ resp.status = 200
    /\ \E l \in geoCollection, m \in geoCollection :
          /\ l.name = "n2" /\ l.created_by = "a"
          /\ m.name = "n1"

\* C10: the created_by of every stored record is the email of a stored Account.
C10_OwnerExists ==
    \A l \in geoCollection : \E u \in userCollection : u.email = l.created_by

\* C11: a delete user sent by a requestor that resolves to an admin Account is
\* answered 200, removes no Account other than the one with the addressed id
\* (at most one) and leaves every location record in the store as it was,
\* the records created by the deleted Account included.
C11_DeleteUserFrame ==
    \A h \in Headers, objID \in IdParams :
      (\E a \in userCollection : a.email = GetHeader(h) /\ a.role = "admin") =>
        \A o \in DeleteUserHandler(h, objID) :
           /\ o.resp.status = 200
           /\ o.userCollection \subseteq userCollection
           /\ Cardinality(userCollection \ o.userCollection) <= 1
           /\ \A u \in userCollection \ o.userCollection : u.id = objID
           /\ \A u \in o.userCollection : u.id # objID
           /\ o.geoCollection = geoCollection
           /\ \A u \in userCollection, l \in geoCollection :
                 (u.id = objID /\ l.created_by = u.email) => l \in o.geoCollection

\* an Account was deleted: Account 2 was registered with email "a" and is
\* gone, and the record that Account created is still stored under its email
C11_Witness ==
    /\ resp.op = "deleteUser"
    /\ resp.status = 200
    /\ \A u \in userCollection : u.id # 2 /\ u.email # "a"
    /\ \E l \in geoCollection : l.id = 3 /\ l.created_by = "a"

\* C12: the update handler checks in the order identity (401), record lookup
\* (404), access decision (403), body parsing (400): the answer is that of the
\* first check that fails, whatever the later checks would say; a 403 is given
\* only for a resolved requestor and a stored record; 200 is given only when
\* all four pass; every answer other than 200 leaves both stores unchanged.
C12_CheckOrder ==
    \A h \in Headers, objID \in IdParams, body \in LocationInput :
      \A o \in EditLocationHandler(h, objID, body) :
        LET known == \E u \in userCollection : u.email = GetHeader(h)
            stored == \E l \in geoCollection : l.id = objID
            allowed == \E u \in userCollection, l \in geoCollection :
                          /\ u.email = GetHeader(h) /\ l.id = objID
                          /\ (u.role = "admin" \/ l.created_by = u.email)
        IN /\ o.resp.status =
                IF ~known THEN 401
                ELSE IF ~stored THEN 404
                ELSE IF ~allowed THEN 403
                ELSE IF ~body.ok THEN 400
                ELSE 200
           /\ o.resp.status = 403 => known /\ stored
           /\ o.resp.status # 200 =>
                 o.userCollection = userCollection /\ o.geoCollection = geoCollection

\* an update was answered 401 in a state where no record is stored: the same
\* request fails the record lookup as well, and the identity check decided
C12_Witness ==
    /\ resp.op = "editLocation"
    /\ resp.status = 401
    /\ geoCollection = {}
    /\ \E u \in userCollection : u.role = "user"

\* no two stored Accounts share an email
EmailsUnique(users) ==
    \A u \in users, v \in users : u.email = v.email => u = v

C13_AtomicKeepsUnique(o) ==
    EmailsUnique(userCollection) => EmailsUnique(o.userCollection)

\* C13: register is an existence check followed by a separate insert.  A
\* request served whole (register or any other) never takes a store whose
\* emails are unique to one where two Accounts share an email; the insert step
\* of a register request that passed its check inserts its Account whatever
\* the store holds by then, so two requests for one email that both passed
\* the check both insert.
C13_RegisterRace ==
    /\ [](EmailsUnique({SeedAdmin}) /\ EveryResult(C13_AtomicKeepsUnique))
    /\ [][\A p \in Procs :
            (inflight[p].pc = "insert" /\ inflight'[p] = Idle) =>
               /\ resp'.status = 201
               /\ userCollection' = userCollection \cup {NewUser(nextId, inflight[p].input)}
               /\ \A u \in userCollection : u.id # nextId]_vars

\* two register requests for one email interleaved: Accounts 2 and 3 share
\* the email "a" and no request is in flight any more
C13_Witness ==
    /\ \E u \in userCollection, v \in userCollection :
          u.id = 2 /\ v.id = 3 /\ u.email = "a" /\ v.email = "a"
    /\ \A p \in Procs : inflight[p] = Idle
    /\ resp.op = "register" /\ resp.status = 201

\* C14: every step-wise write that changes or removes a record is issued by a
\* request whose requestor is, in the state the write is issued in, a stored
\* Account with role "admin" or with the record's created_by as its email.
C14_WriterAuthorizedAtWrite ==
    [][\A p \in Procs :
         (inflight[p].pc \in {"editUpdate", "deleteDelete"} /\ inflight'[p] = Idle) =>
            \A l \in geoCollection \ geoCollection' :
               \E u \in userCollection :
                  /\ u.email = inflight[p].requestor.email
                  /\ (u.role = "admin" \/ u.email = l.created_by)]_vars

\* C14 as amended: every step-wise write changes or removes only the record
\* with the addressed id, and the Account its requestor resolved to at the
\* request's identity lookup had role "admin" or the record's created_by as
\* its email (that Account may be demoted or deleted when the write is issued).
C14_WriterAuthorizedAtLookup ==
    [][\A p \in Procs :
         (inflight[p].pc \in {"editUpdate", "deleteDelete"} /\ inflight'[p] = Idle) =>
            /\ userCollection' = userCollection
            /\ \A l \in geoCollection \ geoCollection' :
                  /\ l.id = inflight[p].objID
                  /\ \/ inflight[p].requestor.role = "admin"
                     \/ inflight[p].requestor.email = l.created_by]_vars

\* a delete was answered 200 in a store without Accounts while a record is
\* left: the Account of its requestor was deleted between lookup and write
C14_Witness ==
    /\ resp.op = "deleteLocation"
    /\ resp.status = 200
    /\ userCollection = {}
    /\ geoCollection # {}

\* C15: the initialization body is entered at most once, by one caller at a
\* time; a call that has left once.Do (returns, serves or has served) finds
\* the body run exactly once and finished, with app assigned; no call is given
\* a nil router and all calls that returned hold the same router.
C15_InitOnce ==
    /\ bodyRuns <= 1
    /\ Cardinality({c \in Callers : pc[c] \in {"connectDB", "routes", "assign", "store"}}) <= 1
    /\ \A c \in Callers :
          /\ pc[c] # "panic"
          /\ pc[c] \in {"return", "ServeHTTP", "served"} =>
                /\ bodyRuns = 1
                /\ onceDone
                /\ app = "r"
                /\ \A d \in Callers : pc[d] \notin {"connectDB", "routes", "assign"}
          /\ pc[c] \in {"ServeHTTP", "served"} => router[c] = "r"
          /\ \A d \in Callers :
                (router[c] # "none" /\ router[d] # "none") => router[c] = router[d]

\* every concurrent first call was served by the router of the one run of
\* the body, here the run that found no MONGO_URI
C15_Witness ==
    /\ \A c \in Callers : pc[c] = "served" /\ router[c] = "r"
    /\ bodyRuns = 1
    /\ db = "nil"

\* C16: in src/api/api.go an update or delete whose X-User-Email header is
\* missing, or has a value that is the email of no Account, leaves every
\* stored location record as it was.
C16_NoIdentityNoWrite ==
    \A h \in Headers, objID \in IdParams :
      (\/ h = <<>>
       \/ \A u \in userCollection : u.email # GetHeader(h)) =>
         \A o \in ApiDeleteLocationHandler(h, objID)
                  \cup UNION {ApiEditLocationHandler(h, objID, body) : body \in LocationInput} :
            \A l \in geoCollection : l \in o.geoCollection

====
